---- MODULE Spec2Model ----
(***************************************************************************)
(* Model of the link-downloader edge functions (all revisions of the       *)
(* youtube-download handler) and of the helpers they share.                *)
(*                                                                         *)
(* Text is modelled as a sequence of one-character strings so that the     *)
(* regular expressions of extractVideoId are computed, not assumed.        *)
(* One request is handled at a time per behaviour; every `await` of a      *)
(* handler is the boundary between two actions, and the environment        *)
(* (Cobalt, oEmbed, ytdl, the media host) chooses what each await yields.   *)
(***************************************************************************)
EXTENDS Integers, Sequences, FiniteSets, TLC

VARIABLES
  rev,         \* which revision of the edge function is deployed
  req,         \* the parsed request body
  pc,          \* position of the handler: "start", an await, or "done"
  videoId,     \* extracted video id (Null when none)
  videoInfo,   \* result of getVideoInfo / getVideoTitle
  k,           \* index of the Cobalt instance being attempted
  lastError,   \* part_003: lastError
  held,        \* provider result kept across a later await
  response,    \* the Response returned by the handler
  inflight,    \* outbound requests sent and not yet settled
  calls,       \* provider calls made for this request, per instance
  sent,        \* payloads sent to providers for this request, in order
  oembed,      \* "none", "pending" or "settled": the oEmbed call
  chunks,      \* ytdl revision: number of chunks collected
  totalSize,   \* ytdl revision: totalSize
  got,         \* what each settled provider call of this request came to
  threw,       \* whether the last settled provider call raised an exception
  earlier,     \* whether this deployment handled a request before this one
  probe,       \* a provider response handed to the classifiers on their own
  selected,    \* the resolution selected in the UI, given to downloadVideo
  hookRev,     \* which revision of the hook useYouTubeDownload is mounted
  hookPc,      \* position of downloadVideo: "idle", an await, or "returned"
  isDownloading, \* hook state isDownloading (isProcessing of processVideo)
  progress,    \* hook state progress
  hookError,   \* hook state error
  returned,    \* the DownloadResult downloadVideo returned
  requests,    \* bodies the hook sent to the edge function in this run
  infoAnswer,  \* two-step hook: what the info request settled with
  fetched,     \* the Response of the fetch being handled
  total,       \* read loop: totalSize / total (0 when unknown)
  received,    \* read loop: receivedSize / received
  nchunks,     \* read loop: chunks.length
  shown,       \* every value progress was set to during this run, in order
  runs,        \* calls of downloadVideo so far
  timers,      \* setTimeout callbacks of the finally blocks still pending
  opened       \* links opened or clicked during this run

edgeVars == <<rev, req, pc, videoId, videoInfo, k, lastError, held, response,
          inflight, calls, sent, oembed, chunks, totalSize, got, threw,
          earlier, probe, selected>>

hookVars == <<hookRev, hookPc, isDownloading, progress, hookError, returned,
              requests,
              infoAnswer, fetched, total, received, nchunks, shown, runs, timers,
              opened>>

vars == <<edgeVars, hookVars>>

----------------------------------------------------------------------------
(* Bounds of the model *)

MaxIdLen == 12     \* longest run of id characters in an extractVideoId input
MaxChunks == 3     \* most chunks a ytdl stream yields in the model
MaxReads == 3      \* most chunks the hook's reader yields in the model
MaxRuns == 2       \* most calls of downloadVideo in the model

----------------------------------------------------------------------------
(* Absent values.  JSON.stringify drops undefined fields; a field that is  *)
(* absent (or falsy where the code only tests truthiness) is Undef.        *)

Undef == "undefined"
Null == << >>      \* extractVideoId's null: match[1] is never empty, so the
                   \* empty sequence is free to stand for null
NoUrl == [site |-> "", arg |-> << >>]   \* an absent / falsy URL

----------------------------------------------------------------------------
(* Text helpers *)

Lower == {"a","b","c","d","e","f","g","h","i","j","k","l","m",
          "n","o","p","q","r","s","t","u","v","w","x","y","z"}
Upper == {"A","B","C","D","E","F","G","H","I","J","K","L","M",
          "N","O","P","Q","R","S","T","U","V","W","X","Y","Z"}
Digit == {"0","1","2","3","4","5","6","7","8","9"}

\* [a-zA-Z0-9_-]
IdChars == Lower \cup Upper \cup Digit \cup {"_", "-"}

\* [^&\n?#] is every character outside this set
StopChars == {"&", "\n", "?", "#"}

WatchPrefix == <<"y","o","u","t","u","b","e",".","c","o","m","/",
                 "w","a","t","c","h","?","v","=">>
ShortPrefix == <<"y","o","u","t","u",".","b","e","/">>
EmbedPrefix == <<"y","o","u","t","u","b","e",".","c","o","m","/",
                 "e","m","b","e","d","/">>

\* the alternation (?:youtube\.com\/watch\?v=|youtu\.be\/|youtube\.com\/embed\/)
UrlPrefixes == <<WatchPrefix, ShortPrefix, EmbedPrefix>>

\* literal p occurs in s starting at position i
StartsAt(s, i, p) ==
  /\ i + Len(p) - 1 <= Len(s)
  /\ \A j \in 1..Len(p) : s[i + j - 1] = p[j]

\* alternative a of the alternation, then at least one non-stop character
MatchesAt(s, i, a) ==
  /\ StartsAt(s, i, UrlPrefixes[a])
  /\ i + Len(UrlPrefixes[a]) <= Len(s)
  /\ s[i + Len(UrlPrefixes[a])] \notin StopChars

Min(S) == CHOOSE x \in S : \A y \in S : x <= y

\* the greedy capture ([^&\n?#]+) starting at position b
Capture(s, b) ==
  LET ends == {e \in b..Len(s) : \A j \in b..e : s[j] \notin StopChars}
      e == CHOOSE x \in ends : \A y \in ends : y <= x
  IN SubSeq(s, b, e)

\* url.match(/(?:youtube\.com\/watch\?v=|youtu\.be\/|youtube\.com\/embed\/)([^&\n?#]+)/)
\* unanchored: the leftmost position where some alternative matches wins
MatchUrlPattern(s) ==
  LET hits == {i \in 1..Len(s) : \E a \in 1..3 : MatchesAt(s, i, a)}
  IN IF hits = {} THEN Null
     ELSE LET i == Min(hits)
              a == Min({x \in 1..3 : MatchesAt(s, i, x)})
          IN Capture(s, i + Len(UrlPrefixes[a]))

\* url.match(/^([a-zA-Z0-9_-]{11})$/)
MatchBareId(s) ==
  IF Len(s) = 11 /\ \A j \in 1..11 : s[j] \in IdChars THEN s ELSE Null

\* for (const pattern of patterns) { match = url.match(pattern); if (match) return match[1] }
extractVideoId(url) ==
  IF MatchUrlPattern(url) # Null THEN MatchUrlPattern(url)
  ELSE MatchBareId(url)

\* encodeURIComponent on the characters the model uses: unreserved
\* characters are kept, every other character becomes %XX
Unreserved == IdChars \cup {".", "!", "~", "*", "'", "(", ")"}

PercentCode(c) ==
  CASE c = ":"  -> <<"%","3","A">>
    [] c = "/"  -> <<"%","2","F">>
    [] c = "?"  -> <<"%","3","F">>
    [] c = "="  -> <<"%","3","D">>
    [] c = "&"  -> <<"%","2","6">>
    [] c = "#"  -> <<"%","2","3">>
    [] c = "\n" -> <<"%","0","A">>
    [] OTHER    -> <<"%","2","1">>

RECURSIVE encodeURIComponent(_)
encodeURIComponent(s) ==
  IF s = << >> THEN << >>
  ELSE (IF Head(s) \in Unreserved THEN <<Head(s)>> ELSE PercentCode(Head(s)))
       \o encodeURIComponent(Tail(s))

\* "https://www.youtube.com/watch?v="
WatchUrlText == <<"h","t","t","p","s",":","/","/","w","w","w",".">> \o WatchPrefix

\* `https://www.youtube.com/watch?v=${videoId}`
YoutubeUrl(id) == WatchUrlText \o id

----------------------------------------------------------------------------
(* URLs the handlers return.  site is the literal part of the template      *)
(* string, arg the interpolated part.                                       *)

Link(site, arg) == [site |-> site, arg |-> arg]

\* URLs a provider can hand out (url, picker[0].url, tunnel[0])
MediaUrl == Link("https://media.example/", <<"u">>)
PickerUrl == Link("https://media.example/", <<"p">>)
TunnelUrl == Link("https://media.example/", <<"t">>)

----------------------------------------------------------------------------
(* Revisions of the edge function *)

RevSingle == "part_002"          \* one Cobalt call, tryAlternativeDownload
RevProxy == "part_001"           \* getCobaltDownloadUrl, proxyDownload
RevPair == "part_000/1"          \* two instances, y2mate fallback
RevMulti == "part_003"           \* eight instances, fallbackServices
RevServices == "part_000/2"      \* oEmbed + getDownloadServices
RevServices2 == "index.ts/1"     \* oEmbed + getDownloadServices
RevYtdl == "index.ts/2"          \* oEmbed + ytdl stream
RevOptions == "index.ts/3"       \* oEmbed + inline downloadServices

Revs == {RevSingle, RevProxy, RevPair, RevMulti,
         RevServices, RevServices2, RevYtdl, RevOptions}

\* revisions that post to Cobalt instances
CobaltRevs == {RevSingle, RevProxy, RevPair, RevMulti}

\* COBALT_INSTANCES.length of each revision (part_002 has one hard-wired endpoint)
NumInstancesSingle == 1
NumInstancesProxy == 1
NumInstancesPair == 2
NumInstancesMulti == 8

NumInstances(r) ==
  CASE r = RevSingle -> NumInstancesSingle
    [] r = RevProxy  -> NumInstancesProxy
    [] r = RevPair   -> NumInstancesPair
    [] r = RevMulti  -> NumInstancesMulti
    [] OTHER         -> 0

MaxInstances == NumInstancesMulti

----------------------------------------------------------------------------
(* Requests *)

SampleId == <<"d","Q","w","4","w","9","W","g","X","c","Q">>

UrlEmpty == << >>
UrlShort == <<"h","t","t","p","s",":","/","/">> \o ShortPrefix \o SampleId
UrlBare == SampleId
UrlStub == ShortPrefix \o <<"a","b","c">>
UrlOther == <<"v","i","m","e","o",".","c","o","m","/","1">>

Urls == {UrlEmpty, UrlShort, UrlBare, UrlStub, UrlOther}

Qualities == {Undef, "720p", "4K", "720"}

Requests == [url : Urls, audioOnly : BOOLEAN, quality : Qualities,
             proxyDownload : BOOLEAN]

\* String.prototype.toLowerCase on the quality labels of the model
toLowerCase(q) == IF q = "4K" THEN "4k" ELSE q

\* mapQuality of part_003
mapQuality(quality) ==
  IF quality = Undef THEN "1080"
  ELSE LET q == toLowerCase(quality)
       IN CASE q = "360p"  -> "360"
            [] q = "480p"  -> "480"
            [] q = "720p"  -> "720"
            [] q = "1080p" -> "1080"
            [] q = "1440p" -> "1440"
            [] q = "2160p" -> "2160"
            [] q = "4k"    -> "2160"
            [] q = "max"   -> "max"
            [] OTHER       -> "1080"

\* destructuring default: `quality = d` applies only to undefined
Default(v, d) == IF v = Undef THEN d ELSE v

----------------------------------------------------------------------------
(* What a Cobalt instance can answer.  fetch either rejects or resolves;    *)
(* a resolved response is ok or not; its body parses as JSON or not; a      *)
(* parsed body is any combination of the fields the handlers look at.       *)

\* data.picker / data.tunnel: absent, or an array of entry URLs
NoList == [present |-> FALSE, items |-> << >>]
Pickers == {NoList,
            [present |-> TRUE, items |-> << >>],
            [present |-> TRUE, items |-> <<PickerUrl>>],
            [present |-> TRUE, items |-> <<NoUrl>>]}
Tunnels == {NoList,
            [present |-> TRUE, items |-> << >>],
            [present |-> TRUE, items |-> <<TunnelUrl>>]}

Statuses == {Undef, "tunnel", "redirect", "picker", "local-processing",
             "error", "stream"}

CobaltData ==
  {d \in [status : Statuses, url : {NoUrl, MediaUrl}, picker : Pickers,
          tunnel : Tunnels, filename : {Undef, "clip.mp4"},
          code : {Undef, "error.api.youtube.login"}] :
     /\ d.code # Undef => d.status = "error"
     /\ d.tunnel.present => d.status = "local-processing"}

NoData == [status |-> Undef, url |-> NoUrl, picker |-> NoList,
           tunnel |-> NoList, filename |-> Undef, code |-> Undef]

FetchRejected == [fetch |-> "reject", ok |-> FALSE, json |-> FALSE, data |-> NoData]
HttpError == [fetch |-> "resolve", ok |-> FALSE, json |-> FALSE, data |-> NoData]
BadJson == [fetch |-> "resolve", ok |-> TRUE, json |-> FALSE, data |-> NoData]

CobaltResponses ==
  {FetchRejected, HttpError, BadJson}
  \cup {[fetch |-> "resolve", ok |-> TRUE, json |-> TRUE, data |-> d] : d \in CobaltData}

\* every combination of the fields, for the classifiers on their own
ProbeData ==
  [status : Statuses, url : {NoUrl, MediaUrl}, picker : Pickers,
   tunnel : Tunnels, filename : {Undef, "clip.mp4"},
   code : {Undef, "error.api.youtube.login"}]

ProbeResponses ==
  {FetchRejected, HttpError, BadJson}
  \cup {[fetch |-> "resolve", ok |-> TRUE, json |-> TRUE, data |-> d] : d \in ProbeData}

\* `a || b` on strings
Or(a, b) == IF a = Undef THEN b ELSE a

\* data.picker && data.picker.length > 0
NonEmpty(l) == l.present /\ Len(l.items) > 0

Result(success, url, filename, error) ==
  [success |-> success, url |-> url, filename |-> filename, error |-> error]

\* ClassifyData that looks for a url before it looks at the status
ClassifyDataUrlFirst(data) ==
  IF data.url # NoUrl
    THEN Result(TRUE, data.url, data.filename, Undef)
  ELSE IF data.status = "tunnel" \/ data.status = "redirect"
    THEN Result(TRUE, data.url, data.filename, Undef)
  ELSE IF data.status = "picker" /\ NonEmpty(data.picker)
    THEN Result(TRUE, data.picker.items[1], Or(data.filename, "video"), Undef)
  ELSE IF data.status = "local-processing" /\ NonEmpty(data.tunnel)
    THEN Result(TRUE, data.tunnel.items[1], "video", Undef)
  ELSE IF data.status = "error"
    THEN Result(FALSE, NoUrl, Undef, Or(data.code, "Unknown error"))
  ELSE Result(FALSE, NoUrl, Undef, "Unknown response format")

\* the classification of a parsed body in tryInstance (part_003)
ClassifyData(data) ==
  IF data.status = "tunnel" \/ data.status = "redirect"
    THEN Result(TRUE, data.url, data.filename, Undef)
  ELSE IF data.status = "picker" /\ NonEmpty(data.picker)
    THEN Result(TRUE, data.picker.items[1], Or(data.filename, "video"), Undef)
  ELSE IF data.status = "local-processing" /\ NonEmpty(data.tunnel)
    THEN Result(TRUE, data.tunnel.items[1], "video", Undef)
  ELSE IF data.status = "error"
    THEN Result(FALSE, NoUrl, Undef, Or(data.code, "Unknown error"))
  ELSE IF data.url # NoUrl
    THEN Result(TRUE, data.url, data.filename, Undef)
  ELSE Result(FALSE, NoUrl, Undef, "Unknown response format")

\* tryInstance of part_003: every exception is caught inside
tryInstance(r) ==
  IF r.fetch = "reject" THEN Result(FALSE, NoUrl, Undef, "fetch failed")
  ELSE IF ~r.ok THEN Result(FALSE, NoUrl, Undef, "HTTP 500")
  ELSE IF ~r.json THEN Result(FALSE, NoUrl, Undef, "Unexpected token")
  ELSE ClassifyData(r.data)

\* tryCobaltInstance of part_000: null is a result with success FALSE
tryCobaltInstance(r, audioOnly) ==
  LET dflt == IF audioOnly THEN "video.mp3" ELSE "video.mp4"
      none == Result(FALSE, NoUrl, Undef, Undef)
  IN IF r.fetch = "reject" \/ ~r.ok \/ ~r.json THEN none
     ELSE IF r.data.url # NoUrl
       THEN Result(TRUE, r.data.url, Or(r.data.filename, dflt), Undef)
     ELSE IF NonEmpty(r.data.picker)
       THEN Result(TRUE, r.data.picker.items[1], dflt, Undef)
     ELSE none

\* one round of the loop in getCobaltDownloadUrl of part_001: a url is
\* returned when the response is ok and data.url is set; everything else,
\* exceptions included, falls through to the next instance
getCobaltDownloadUrl(r) ==
  IF r.fetch = "resolve" /\ r.ok /\ r.json /\ r.data.url # NoUrl
    THEN Result(TRUE, r.data.url, Or(r.data.filename, "video.mp4"), Undef)
  ELSE Result(FALSE, NoUrl, Undef, Undef)

NoResult == Result(FALSE, NoUrl, Undef, Undef)

----------------------------------------------------------------------------
(* Responses of the edge function.  A field that JSON.stringify would drop *)
(* holds its absent value.  File names are left out: they are cosmetic and  *)
(* no handler branches on the one it returns.                              *)

Resp(status, success, downloadUrl, error, links, source, isExternal, title) ==
  [status |-> status, kind |-> "json", success |-> success,
   downloadUrl |-> downloadUrl, error |-> error, links |-> links,
   source |-> source, isExternal |-> isExternal, title |-> title,
   length |-> 0]

NoResponse == [status |-> 0, kind |-> "none", success |-> Undef,
               downloadUrl |-> NoUrl, error |-> Undef, links |-> << >>,
               source |-> 0, isExternal |-> FALSE, title |-> Undef,
               length |-> 0]

\* { error: msg } with the given HTTP status
ErrorResp(status, msg) == Resp(status, Undef, NoUrl, msg, << >>, 0, FALSE, Undef)

\* a media body sent back (proxyDownload, ytdl); n is its Content-Length
MediaResp(n) == [NoResponse EXCEPT !.status = 200, !.kind = "media", !.length = n]

Y2Mate(id) == Link("https://www.y2mate.com/youtube/", id)
SSYouTube(id) == Link("https://ssyoutube.com/watch?v=", id)
SSYouTubePt(id) == Link("https://ssyoutube.com/pt/", id)
SaveFrom(u) == Link("https://en.savefrom.net/1-youtube-video-downloader-438/#url=", u)
SaveFromId(id) == Link("https://en.savefrom.net/1-youtube-video-downloader-", id)
NineXBuddy(u) == Link("https://9xbuddy.com/process?url=", u)
YtMp3(u) == Link("https://ytmp3.cc/youtube-to-mp3/?url=", u)
CobaltTools(u) == Link("https://cobalt.tools/?u=", u)

\* `https://youtube.com/watch?v=${videoId}`
PlainWatchUrl(id) == <<"h","t","t","p","s",":","/","/">> \o WatchPrefix \o id

\* fallbackServices of part_003
fallbackServices(id) ==
  <<CobaltTools(encodeURIComponent(YoutubeUrl(id))),
    Y2Mate(id),
    SaveFrom(encodeURIComponent(YoutubeUrl(id)))>>

\* fallbackServices of the ytdl revision
ytdlFallbackServices(id) ==
  <<SSYouTubePt(id), Y2Mate(id), SaveFrom(encodeURIComponent(YoutubeUrl(id)))>>

\* getDownloadServices whose audio branch overwrites services[0]
getDownloadServicesOverwrite(id, audioOnly) ==
  LET services == <<SaveFrom(encodeURIComponent(PlainWatchUrl(id))),
                    Y2Mate(id),
                    SSYouTube(id),
                    NineXBuddy(encodeURIComponent(PlainWatchUrl(id)))>>
  IN IF audioOnly
       THEN <<YtMp3(encodeURIComponent(PlainWatchUrl(id)))>> \o Tail(services)
       ELSE services

\* getDownloadServices of part_000 (second handler): unshift for audio
getDownloadServices(id, audioOnly) ==
  LET services == <<SaveFrom(encodeURIComponent(PlainWatchUrl(id))),
                    Y2Mate(id),
                    SSYouTube(id),
                    NineXBuddy(encodeURIComponent(PlainWatchUrl(id)))>>
  IN IF audioOnly
       THEN <<YtMp3(encodeURIComponent(PlainWatchUrl(id)))>> \o services
       ELSE services

\* getDownloadServices of index.ts (first handler): push for audio
getDownloadServices2(id, audioOnly) ==
  LET services == <<SSYouTube(id),
                    Y2Mate(id),
                    SaveFrom(PlainWatchUrl(id)),
                    NineXBuddy(PlainWatchUrl(id))>>
  IN IF audioOnly THEN Append(services, YtMp3(PlainWatchUrl(id)))
                  ELSE services

\* downloadServices built inline by index.ts (third handler)
inlineServices(id) == <<SSYouTube(id), Y2Mate(id), SaveFromId(id)>>

\* tryAlternativeDownload of part_002
tryAlternativeDownload(url) ==
  LET id == MatchUrlPattern(url)
  IN IF id = Null
       THEN ErrorResp(400, "Could not extract video ID from URL")
       ELSE Resp(200, "false", NoUrl, "Download service temporarily unavailable",
                 <<Y2Mate(id)>>, 0, FALSE, Undef)

----------------------------------------------------------------------------
(* What the oEmbed endpoint, the media host and ytdl can answer *)

OEmbedResponses ==
  [fetch : {"reject", "resolve"}, ok : BOOLEAN, json : BOOLEAN,
   title : {Undef, "Song"}]

NoInfo == [present |-> FALSE, title |-> Undef]

\* getVideoInfo: { title: data.title || "video", ... } or null
getVideoInfo(o) ==
  IF o.fetch = "resolve" /\ o.ok /\ o.json
    THEN [present |-> TRUE, title |-> Or(o.title, "video")]
    ELSE NoInfo

\* getVideoTitle: data.title || "video", or "video" on any failure
getVideoTitle(o) ==
  IF o.fetch = "resolve" /\ o.ok /\ o.json
    THEN [present |-> TRUE, title |-> Or(o.title, "video")]
    ELSE [present |-> TRUE, title |-> "video"]

\* videoInfo?.title || "Vídeo do YouTube"
TitleOf(info) == IF info.present THEN info.title ELSE "Video do YouTube"

MediaOutcomes == {"reject", "error", "ok"}

\* 50 * 1024 * 1024
StreamLimit == 52428800

\* chunk.length of the chunks a stream yields in the model
ChunkSizes == {0, 1, 30000000}

----------------------------------------------------------------------------
(* Outbound calls *)

CobaltCall(i) == [to |-> "cobalt", instance |-> i]
OEmbedCall == [to |-> "oembed", instance |-> 0]
MediaCall == [to |-> "media", instance |-> 0]
YtdlCall == [to |-> "ytdl", instance |-> 0]

Payload(i, url, videoQuality, downloadMode) ==
  [instance |-> i, url |-> url, videoQuality |-> videoQuality,
   downloadMode |-> downloadMode]

\* requestBody that lowers the quality after the first instance
requestBodyDegrading(i, youtubeUrl, audioOnly, quality) ==
  Payload(i, youtubeUrl, IF i > 1 THEN "360" ELSE quality,
          IF audioOnly THEN "audio" ELSE Undef)

\* requestBody of tryInstance in part_003: downloadMode only when audioOnly
requestBody(i, youtubeUrl, audioOnly, quality) ==
  Payload(i, youtubeUrl, quality, IF audioOnly THEN "audio" ELSE Undef)

\* the JSON body posted by part_000, part_001 and part_002
postBody(i, url, quality, audioOnly) ==
  Payload(i, url, quality, IF audioOnly THEN "audio" ELSE "auto")

\* Post issued without awaiting the call that came before it
PostNoAwait(settled, i, body) ==
  /\ inflight' = inflight \cup {CobaltCall(i)}
  /\ calls' = [calls EXCEPT ![i] = @ + 1]
  /\ sent' = Append(sent, body)

\* fetch(instance, { method: "POST", body }) is issued; `settled` are the
\* calls that have just returned
Post(settled, i, body) ==
  /\ inflight' = (inflight \ settled) \cup {CobaltCall(i)}
  /\ calls' = [calls EXCEPT ![i] = @ + 1]
  /\ sent' = Append(sent, body)

\* the handler returns r
Respond(settled, r) ==
  /\ response' = r
  /\ pc' = "done"
  /\ inflight' = inflight \ settled

NoCalls == [i \in 1..MaxInstances |-> 0]

\* a provider call raised an exception: fetch rejected, or the body of an
\* ok response did not parse
Threw(r) == r.fetch = "reject" \/ (r.ok /\ ~r.json)

\* the result the deployed revision draws from a settled provider call
ResultOf(r) ==
  CASE rev = RevMulti -> tryInstance(r)
    [] rev = RevPair  -> tryCobaltInstance(r, req.audioOnly)
    [] rev = RevProxy -> getCobaltDownloadUrl(r)
    [] OTHER          -> IF r.fetch = "resolve" /\ r.ok /\ r.json /\ r.data.status # "error"
                           THEN Result(TRUE, r.data.url, Undef, Undef)
                           ELSE NoResult

\* the settled call counts as a success for the deployed revision
Accepted(r) ==
  IF rev = RevMulti THEN ResultOf(r).success /\ ResultOf(r).url # NoUrl
                    ELSE ResultOf(r).success

\* bookkeeping for a provider call of instance k that has settled with r
Settle(r) ==
  /\ got' = Append(got, [instance |-> k, accepted |-> Accepted(r),
                         url |-> ResultOf(r).url])
  /\ threw' = Threw(r)

----------------------------------------------------------------------------
(* The client hook useYouTubeDownload: its revisions and its React state    *)

HookStream == "useYouTubeDownload.ts/1"    \* reads the binary answer itself
HookTwoStep == "useYouTubeDownload.ts/2"   \* info request, then proxy request
HookProcess == "useYouTubeDownload.ts/3"   \* processVideo: a list of services
HookLink == "part_006"                     \* clicks a link to downloadUrl
HookWindow == "part_007"                   \* opens downloadUrl in a window
NoHook == "none"

HookRevs == {HookStream, HookTwoStep, HookProcess, HookLink, HookWindow}

\* useState<string | null>(null)
NoError == "null"

\* no DownloadResult returned yet
NoHookResult == [success |-> Undef, error |-> Undef]

\* the JSON body of an edge-function answer, by the fields the hooks read;
\* services stands for externalServices (part_007) and downloadServices
\* (processVideo)
HookData(err, downloadUrl, isExternal, method, services) ==
  [error |-> err, downloadUrl |-> downloadUrl, isExternal |-> isExternal,
   method |-> method, services |-> services]

NoHookData == HookData(Undef, NoUrl, FALSE, Undef, NoList)

ServiceLists == {NoList,
                 [present |-> TRUE, items |-> << >>],
                 [present |-> TRUE, items |-> <<Y2Mate(SampleId)>>]}

EdgeData ==
  {HookData(e, u, x, Undef, NoList) :
     e \in {Undef, "Download failed"}, u \in {NoUrl, MediaUrl}, x \in BOOLEAN}
  \cup {HookData(Undef, u, FALSE, "direct", NoList) : u \in {NoUrl, MediaUrl}}
  \cup {HookData(Undef, NoUrl, FALSE, "external", l) : l \in ServiceLists}
  \cup {HookData(Undef, NoUrl, FALSE, Undef, l) : l \in ServiceLists}

\* Content-Length headers of the model; 0 stands for a missing header
ContentLengths == {0, 1200, 12000000}

\* value.length of the chunks reader.read() yields in the model
ReadSizes == {0, 600, 6000000}

\* what fetch(functionUrl) settles with, as the hook sees it
Answer(settle, ok, contentType, contentLength, body, parses, data) ==
  [fetch |-> settle, ok |-> ok, contentType |-> contentType,
   contentLength |-> contentLength, body |-> body, parses |-> parses,
   data |-> data]

NoAnswer == Answer("reject", FALSE, "none", 0, FALSE, FALSE, NoHookData)

EdgeAnswers ==
  {NoAnswer}
  \cup {Answer("resolve", ok, "json", 0, TRUE, TRUE, d) :
          ok \in BOOLEAN, d \in EdgeData}
  \cup {Answer("resolve", ok, "json", 0, TRUE, FALSE, NoHookData) : ok \in BOOLEAN}
  \cup {Answer("resolve", ok, "media", n, b, FALSE, NoHookData) :
          ok \in BOOLEAN, n \in ContentLengths, b \in BOOLEAN}

\* what supabase.functions.invoke settles with: { data, error }
InvokeAnswers ==
  {[settled |-> TRUE, fnError |-> TRUE, data |-> NoHookData]}
  \cup {[settled |-> TRUE, fnError |-> FALSE, data |-> d] : d \in EdgeData}

\* the invoke has not settled
NoInvoke == [settled |-> FALSE, fnError |-> FALSE, data |-> NoHookData]

\* the state of the hook before downloadVideo was ever called
HookIdle(r) ==
  /\ hookRev = r
  /\ hookPc = "idle"
  /\ isDownloading = FALSE
  /\ progress = 0
  /\ hookError = NoError
  /\ returned = NoHookResult
  /\ requests = << >>
  /\ infoAnswer = NoInvoke
  /\ fetched = NoAnswer
  /\ total = 0
  /\ received = 0
  /\ nchunks = 0
  /\ shown = << >>
  /\ runs = 0
  /\ timers = 0
  /\ opened = 0

TypeOK ==
  /\ rev \in Revs \cup {"extractVideoId"}
  /\ probe \in ProbeResponses
  /\ pc \in {"start", "oembed", "try", "title", "proxy", "ytdl", "collect",
             "done", "extract", "extracted", "classify", "classified",
             "services", "listed", "select", "invoke", "mapped"}
  /\ k \in 0..MaxInstances
  /\ oembed \in {"none", "pending", "settled"}
  /\ chunks \in 0..MaxChunks
  /\ totalSize \in Nat
  /\ hookRev \in HookRevs \cup {NoHook}
  /\ hookPc \in {"idle", "info", "json", "proxy", "text", "read", "returned"}
  /\ isDownloading \in BOOLEAN
  /\ progress \in 0..100
  /\ returned.success \in {Undef, "true", "false"}
  /\ fetched \in EdgeAnswers
  /\ infoAnswer \in InvokeAnswers \cup {NoInvoke}
  /\ nchunks \in 0..MaxReads
  /\ runs \in 0..MaxRuns
  /\ timers \in 0..runs

Init ==
  /\ rev \in Revs
  /\ req \in Requests
  /\ pc = "start"
  /\ videoId = Null
  /\ videoInfo = NoInfo
  /\ k = 0
  /\ lastError = ""
  /\ held = NoResult
  /\ response = NoResponse
  /\ inflight = {}
  /\ calls = NoCalls
  /\ sent = << >>
  /\ oembed = "none"
  /\ chunks = 0
  /\ totalSize = 0
  /\ got = << >>
  /\ threw = FALSE
  /\ earlier = FALSE
  /\ selected = Undef
  /\ HookIdle(NoHook)
  /\ probe = FetchRejected

----------------------------------------------------------------------------
(* part_003: eight instances, oEmbed first, fallbackServices at the end *)

\* MultiStart without the `if (!videoId)` return
MultiStartUnchecked ==
  /\ rev = RevMulti /\ pc = "start"
  /\ IF req.url = UrlEmpty
       THEN /\ Respond({}, ErrorResp(400, "URL e obrigatoria"))
            /\ UNCHANGED <<videoId, oembed>>
       ELSE /\ videoId' = extractVideoId(req.url)
            /\ oembed' = "pending"
            /\ inflight' = inflight \cup {OEmbedCall}
            /\ pc' = "oembed"
            /\ UNCHANGED response
  /\ UNCHANGED <<hookVars, selected, earlier, probe, got, threw, rev, req, videoInfo, k, lastError, held, calls, sent,
                 chunks, totalSize>>

\* serve handler up to `await getVideoInfo(videoId)`
MultiStart ==
  /\ rev = RevMulti /\ pc = "start"
  /\ IF req.url = UrlEmpty
       THEN /\ Respond({}, ErrorResp(400, "URL e obrigatoria"))
            /\ UNCHANGED <<videoId, oembed>>
     ELSE IF extractVideoId(req.url) = Null
       THEN /\ Respond({}, ErrorResp(400, "URL do YouTube invalida"))
            /\ UNCHANGED <<videoId, oembed>>
     ELSE /\ videoId' = extractVideoId(req.url)
          /\ oembed' = "pending"
          /\ inflight' = inflight \cup {OEmbedCall}
          /\ pc' = "oembed"
          /\ UNCHANGED response
  /\ UNCHANGED <<hookVars, selected, earlier, probe, got, threw, rev, req, videoInfo, k, lastError, held, calls, sent,
                 chunks, totalSize>>

\* MultiVideoInfo that does not wait for getVideoInfo: the first instance
\* is posted to while the oEmbed call is still pending
MultiVideoInfoLate ==
  /\ rev = RevMulti /\ pc = "oembed"
  /\ \/ /\ sent = << >>
        /\ k' = 1
        /\ Post({}, 1, requestBody(1, YoutubeUrl(videoId), req.audioOnly,
                                    mapQuality(req.quality)))
        /\ UNCHANGED <<videoInfo, oembed, lastError, pc>>
     \/ /\ sent # << >>
        /\ \E o \in OEmbedResponses : videoInfo' = getVideoInfo(o)
        /\ oembed' = "settled"
        /\ lastError' = ""
        /\ inflight' = inflight \ {OEmbedCall}
        /\ pc' = "try"
        /\ UNCHANGED <<k, calls, sent>>
  /\ UNCHANGED <<hookVars, selected, earlier, probe, got, threw, rev, req, videoId, held, response, chunks, totalSize>>

\* getVideoInfo returns; the loop posts to the first instance
MultiVideoInfo ==
  /\ rev = RevMulti /\ pc = "oembed"
  /\ \E o \in OEmbedResponses : videoInfo' = getVideoInfo(o)
  /\ oembed' = "settled"
  /\ lastError' = ""
  /\ k' = 1
  /\ Post({OEmbedCall}, 1,
          requestBody(1, YoutubeUrl(videoId), req.audioOnly, mapQuality(req.quality)))
  /\ pc' = "try"
  /\ UNCHANGED <<hookVars, selected, earlier, probe, got, threw, rev, req, videoId, held, response, chunks, totalSize>>

\* the answer when every instance failed; err is the last lastError
MultiFallback(err) ==
  Resp(200, "false", NoUrl, err, fallbackServices(videoId), 0, FALSE,
       TitleOf(videoInfo))

\* MultiTry whose `return` on success is missing before the last instance
MultiTryKeepsGoing ==
  /\ rev = RevMulti /\ pc = "try"
  /\ \E r \in CobaltResponses :
       /\ Settle(r)
       /\ LET result == tryInstance(r)
          IN IF result.success /\ result.url # NoUrl /\ k = NumInstancesMulti
            THEN /\ Respond({CobaltCall(k)},
                            Resp(200, "true", result.url, Undef, << >>, k, FALSE,
                                 TitleOf(videoInfo)))
                 /\ UNCHANGED <<k, lastError, calls, sent>>
          ELSE IF k < NumInstancesMulti
            THEN /\ lastError' = Or(result.error, "Unknown error")
                 /\ k' = k + 1
                 /\ Post({CobaltCall(k)}, k + 1,
                         requestBody(k + 1, YoutubeUrl(videoId), req.audioOnly,
                                     mapQuality(req.quality)))
                 /\ UNCHANGED <<pc, response>>
          ELSE /\ lastError' = Or(result.error, "Unknown error")
               /\ Respond({CobaltCall(k)}, MultiFallback(lastError'))
               /\ UNCHANGED <<k, calls, sent>>
  /\ UNCHANGED <<hookVars, selected, earlier, probe, rev, req, videoId, videoInfo, held, oembed, chunks, totalSize>>

\* MultiTry that posts to the same instance again after its first failure
MultiTryRetry ==
  /\ rev = RevMulti /\ pc = "try"
  /\ \E r \in CobaltResponses :
       /\ Settle(r)
       /\ LET result == tryInstance(r)
              again == calls[k] < 2
          IN IF result.success /\ result.url # NoUrl
            THEN /\ Respond({CobaltCall(k)},
                            Resp(200, "true", result.url, Undef, << >>, k, FALSE,
                                 TitleOf(videoInfo)))
                 /\ UNCHANGED <<k, lastError, calls, sent>>
          ELSE IF again \/ k < NumInstancesMulti
            THEN /\ lastError' = Or(result.error, "Unknown error")
                 /\ k' = IF again THEN k ELSE k + 1
                 /\ Post({CobaltCall(k)}, k',
                         requestBody(k', YoutubeUrl(videoId), req.audioOnly,
                                     mapQuality(req.quality)))
                 /\ UNCHANGED <<pc, response>>
          ELSE /\ lastError' = Or(result.error, "Unknown error")
               /\ Respond({CobaltCall(k)}, MultiFallback(lastError'))
               /\ UNCHANGED <<k, calls, sent>>
  /\ UNCHANGED <<hookVars, selected, earlier, probe, rev, req, videoId, videoInfo, held, oembed, chunks, totalSize>>

\* MultiTry whose verdict looks at lastError: after an instance reported a
\* login error, later successes are turned down as well
MultiTryGrudge ==
  /\ rev = RevMulti /\ pc = "try"
  /\ \E r \in CobaltResponses :
       /\ Settle(r)
       /\ LET result == tryInstance(r)
          IN IF result.success /\ result.url # NoUrl
                /\ lastError # "error.api.youtube.login"
            THEN /\ Respond({CobaltCall(k)},
                            Resp(200, "true", result.url, Undef, << >>, k, FALSE,
                                 TitleOf(videoInfo)))
                 /\ UNCHANGED <<k, lastError, calls, sent>>
          ELSE IF k < NumInstancesMulti
            THEN /\ lastError' = IF result.success THEN lastError
                                  ELSE Or(result.error, "Unknown error")
                 /\ k' = k + 1
                 /\ Post({CobaltCall(k)}, k + 1,
                         requestBody(k + 1, YoutubeUrl(videoId), req.audioOnly,
                                     mapQuality(req.quality)))
                 /\ UNCHANGED <<pc, response>>
          ELSE /\ lastError' = Or(result.error, "Unknown error")
               /\ Respond({CobaltCall(k)}, MultiFallback(lastError'))
               /\ UNCHANGED <<k, calls, sent>>
  /\ UNCHANGED <<hookVars, selected, earlier, probe, rev, req, videoId, videoInfo, held, oembed, chunks, totalSize>>

\* tryInstance returns for instance k: first success answers the request,
\* a failure sets lastError and moves to the next instance or to the fallback
MultiTry ==
  /\ rev = RevMulti /\ pc = "try"
  /\ \E r \in CobaltResponses :
       /\ Settle(r)
       /\ LET result == tryInstance(r)
          IN IF result.success /\ result.url # NoUrl
            THEN /\ Respond({CobaltCall(k)},
                            Resp(200, "true", result.url, Undef, << >>, k, FALSE,
                                 TitleOf(videoInfo)))
                 /\ UNCHANGED <<k, lastError, calls, sent>>
          ELSE IF k < NumInstancesMulti
            THEN /\ lastError' = Or(result.error, "Unknown error")
                 /\ k' = k + 1
                 /\ Post({CobaltCall(k)}, k + 1,
                         requestBody(k + 1, YoutubeUrl(videoId), req.audioOnly,
                                     mapQuality(req.quality)))
                 /\ UNCHANGED <<pc, response>>
          ELSE /\ lastError' = Or(result.error, "Unknown error")
               /\ Respond({CobaltCall(k)}, MultiFallback(lastError'))
               /\ UNCHANGED <<k, calls, sent>>
  /\ UNCHANGED <<hookVars, selected, earlier, probe, rev, req, videoId, videoInfo, held, oembed, chunks, totalSize>>

----------------------------------------------------------------------------
(* part_000, first handler: two instances, title fetched after a success,   *)
(* y2mate as the fallback                                                   *)

DefaultFilename(audioOnly) == IF audioOnly THEN "video.mp3" ELSE "video.mp4"

\* serve handler up to the first `await tryCobaltInstance(...)`
PairStart ==
  /\ rev = RevPair /\ pc = "start"
  /\ IF req.url = UrlEmpty
       THEN /\ Respond({}, ErrorResp(400, "URL is required"))
            /\ UNCHANGED <<videoId, k, calls, sent>>
       ELSE /\ videoId' = MatchUrlPattern(req.url)
            /\ k' = 1
            /\ Post({}, 1, postBody(1, req.url, Default(req.quality, "720"),
                                     req.audioOnly))
            /\ pc' = "try"
            /\ UNCHANGED response
  /\ UNCHANGED <<hookVars, selected, earlier, probe, got, threw, rev, req, videoInfo, lastError, held, oembed, chunks, totalSize>>

\* PairFallback that never hands out the y2mate link
PairFallbackNoLink == ErrorResp(500, "Nao foi possivel processar o video")

\* the answer when every instance returned null
PairFallback ==
  IF videoId # Null
    THEN Resp(200, "true", Y2Mate(videoId), Undef, << >>, 0, TRUE, Undef)
    ELSE ErrorResp(500, "Nao foi possivel processar o video")

\* tryCobaltInstance returns for instance k
PairTry ==
  /\ rev = RevPair /\ pc = "try"
  /\ \E r \in CobaltResponses :
       /\ Settle(r)
       /\ LET result == tryCobaltInstance(r, req.audioOnly)
          IN IF result.success
            THEN IF videoId # Null /\ result.filename = DefaultFilename(req.audioOnly)
                   THEN /\ held' = result
                        /\ oembed' = "pending"
                        /\ inflight' = (inflight \ {CobaltCall(k)}) \cup {OEmbedCall}
                        /\ pc' = "title"
                        /\ UNCHANGED <<k, response, calls, sent>>
                   ELSE /\ Respond({CobaltCall(k)},
                                   Resp(200, "true", result.url, Undef, << >>, 0,
                                        FALSE, Undef))
                        /\ UNCHANGED <<k, held, oembed, calls, sent>>
          ELSE IF k < NumInstancesPair
            THEN /\ k' = k + 1
                 /\ Post({CobaltCall(k)}, k + 1,
                         postBody(k + 1, req.url, Default(req.quality, "720"),
                                  req.audioOnly))
                 /\ UNCHANGED <<pc, response, held, oembed>>
          ELSE /\ Respond({CobaltCall(k)}, PairFallback)
               /\ UNCHANGED <<k, held, oembed, calls, sent>>
  /\ UNCHANGED <<hookVars, selected, earlier, probe, rev, req, videoId, videoInfo, lastError, chunks, totalSize>>

\* getVideoTitle returns; the success response is sent
PairTitle ==
  /\ rev = RevPair /\ pc = "title"
  /\ \E o \in OEmbedResponses : videoInfo' = getVideoTitle(o)
  /\ oembed' = "settled"
  /\ Respond({OEmbedCall},
             Resp(200, "true", held.url, Undef, << >>, 0, FALSE, Undef))
  /\ UNCHANGED <<hookVars, selected, earlier, probe, got, threw, rev, req, videoId, k, lastError, held, calls, sent,
                 chunks, totalSize>>

----------------------------------------------------------------------------
(* part_001: getCobaltDownloadUrl over a one-instance list, ssyoutube as    *)
(* the fallback, optional proxying of the media                             *)

\* serve handler up to the first fetch inside getCobaltDownloadUrl
ProxyStart ==
  /\ rev = RevProxy /\ pc = "start"
  /\ IF req.url = UrlEmpty
       THEN /\ Respond({}, ErrorResp(400, "URL is required"))
            /\ UNCHANGED <<k, calls, sent>>
       ELSE /\ k' = 1
            /\ Post({}, 1, postBody(1, req.url, Default(req.quality, "1080"),
                                     req.audioOnly))
            /\ pc' = "try"
            /\ UNCHANGED response
  /\ UNCHANGED <<hookVars, selected, earlier, probe, got, threw, rev, req, videoId, videoInfo, lastError, held, oembed,
                 chunks, totalSize>>

\* the answer when getCobaltDownloadUrl returned null
ProxyFallback ==
  IF MatchUrlPattern(req.url) # Null
    THEN Resp(200, "true", SSYouTube(MatchUrlPattern(req.url)), Undef, << >>, 0,
              TRUE, Undef)
    ELSE ErrorResp(500, "Nao foi possivel obter link de download")

\* the fetch for instance k settles inside getCobaltDownloadUrl
ProxyTry ==
  /\ rev = RevProxy /\ pc = "try"
  /\ \E r \in CobaltResponses :
       /\ Settle(r)
       /\ LET result == getCobaltDownloadUrl(r)
          IN IF result.success
            THEN IF req.proxyDownload
                   THEN /\ held' = result
                        /\ inflight' = (inflight \ {CobaltCall(k)}) \cup {MediaCall}
                        /\ pc' = "proxy"
                        /\ UNCHANGED <<k, response, calls, sent, videoId>>
                   ELSE /\ Respond({CobaltCall(k)},
                                   Resp(200, "true", result.url, Undef, << >>, 0,
                                        FALSE, Undef))
                        /\ UNCHANGED <<k, held, calls, sent, videoId>>
          ELSE IF k < NumInstancesProxy
            THEN /\ k' = k + 1
                 /\ Post({CobaltCall(k)}, k + 1,
                         postBody(k + 1, req.url, Default(req.quality, "1080"),
                                  req.audioOnly))
                 /\ UNCHANGED <<pc, response, held, videoId>>
          ELSE /\ videoId' = MatchUrlPattern(req.url)
               /\ Respond({CobaltCall(k)}, ProxyFallback)
               /\ UNCHANGED <<k, held, calls, sent>>
  /\ UNCHANGED <<hookVars, selected, earlier, probe, rev, req, videoInfo, lastError, oembed, chunks, totalSize>>

\* fetch(result.url) settles: the media is streamed back, or a 500 is sent
ProxyStream ==
  /\ rev = RevProxy /\ pc = "proxy"
  /\ \E m \in MediaOutcomes :
       Respond({MediaCall},
               CASE m = "reject" -> ErrorResp(500, "fetch failed")
                 [] m = "error"  -> ErrorResp(500, "Download failed")
                 [] OTHER        -> MediaResp(1))
  /\ UNCHANGED <<hookVars, selected, earlier, probe, got, threw, rev, req, videoId, videoInfo, k, lastError, held, calls, sent,
                 oembed, chunks, totalSize>>

----------------------------------------------------------------------------
(* part_002: one Cobalt call, tryAlternativeDownload, outer catch *)

\* SingleStart without the `if (!url)` return
SingleStartUnchecked ==
  /\ rev = RevSingle /\ pc = "start"
  /\ k' = 1
  /\ Post({}, 1, postBody(1, req.url, Default(req.quality, "1080"), req.audioOnly))
  /\ pc' = "try"
  /\ UNCHANGED response
  /\ UNCHANGED <<hookVars, selected, earlier, probe, got, threw, rev, req, videoId, videoInfo, lastError,
                 held, oembed, chunks, totalSize>>

\* serve handler up to `await fetch("https://api.cobalt.tools/", ...)`
SingleStart ==
  /\ rev = RevSingle /\ pc = "start"
  /\ IF req.url = UrlEmpty
       THEN /\ Respond({}, ErrorResp(400, "URL is required"))
            /\ UNCHANGED <<k, calls, sent>>
       ELSE /\ k' = 1
            /\ Post({}, 1, postBody(1, req.url, Default(req.quality, "1080"),
                                     req.audioOnly))
            /\ pc' = "try"
            /\ UNCHANGED response
  /\ UNCHANGED <<hookVars, selected, earlier, probe, got, threw, rev, req, videoId, videoInfo, lastError, held, oembed,
                 chunks, totalSize>>

\* what the handler answers to a settled Cobalt call: an exception (from
\* fetch or from cobaltResponse.json()) goes to the outer catch
SingleAnswer(r) ==
  IF r.fetch = "reject" THEN ErrorResp(500, "fetch failed")
  ELSE IF ~r.ok THEN tryAlternativeDownload(req.url)
  ELSE IF ~r.json THEN ErrorResp(500, "Unexpected token")
  ELSE IF r.data.status = "error" THEN tryAlternativeDownload(req.url)
  ELSE Resp(200, "true", r.data.url, Undef, << >>, 0, FALSE, Undef)

\* the Cobalt call settles
SingleCobalt ==
  /\ rev = RevSingle /\ pc = "try"
  /\ \E r \in CobaltResponses :
       /\ Settle(r)
       /\ Respond({CobaltCall(k)}, SingleAnswer(r))
       /\ videoId' = IF r.fetch = "resolve" /\ (~r.ok \/ (r.json /\ r.data.status = "error"))
                       THEN MatchUrlPattern(req.url) ELSE videoId
  /\ UNCHANGED <<hookVars, selected, earlier, probe, rev, req, videoInfo, k, lastError, held, calls, sent, oembed,
                 chunks, totalSize>>

----------------------------------------------------------------------------
(* Revisions that only look the video up and return service links           *)
(* (part_000 second handler, index.ts first and third handler), and the     *)
(* ytdl revision, which shares their opening                                *)

\* serve handler up to the oEmbed call: url check, extractVideoId, fetch
InfoStart(r) ==
  /\ rev = r /\ pc = "start"
  /\ IF req.url = UrlEmpty
       THEN /\ Respond({}, ErrorResp(400, "URL is required"))
            /\ UNCHANGED <<videoId, oembed>>
     ELSE IF extractVideoId(req.url) = Null
       THEN /\ Respond({}, ErrorResp(400, "URL do YouTube invalida"))
            /\ UNCHANGED <<videoId, oembed>>
     ELSE /\ videoId' = extractVideoId(req.url)
          /\ oembed' = "pending"
          /\ inflight' = inflight \cup {OEmbedCall}
          /\ pc' = "oembed"
          /\ UNCHANGED response
  /\ UNCHANGED <<hookVars, selected, earlier, probe, got, threw, rev, req, videoInfo, k, lastError, held, calls, sent,
                 chunks, totalSize>>

\* getVideoInfo returns and the list `links` is sent with success: true
InfoAnswer(r, downloadUrl, links) ==
  /\ rev = r /\ pc = "oembed"
  /\ \E o \in OEmbedResponses :
       /\ videoInfo' = getVideoInfo(o)
       /\ Respond({OEmbedCall},
                  Resp(200, "true", downloadUrl, Undef, links, 0, FALSE,
                       TitleOf(videoInfo')))
  /\ oembed' = "settled"
  /\ UNCHANGED <<hookVars, selected, earlier, probe, got, threw, rev, req, videoId, k, lastError, held, calls, sent,
                 chunks, totalSize>>

ServicesStart == InfoStart(RevServices)
ServicesAnswer ==
  InfoAnswer(RevServices, NoUrl, getDownloadServices(videoId, req.audioOnly))

Services2Start == InfoStart(RevServices2)
Services2Answer ==
  InfoAnswer(RevServices2, NoUrl, getDownloadServices2(videoId, req.audioOnly))

OptionsStart == InfoStart(RevOptions)
OptionsAnswer ==
  InfoAnswer(RevOptions, SSYouTube(videoId), inlineServices(videoId))

----------------------------------------------------------------------------
(* index.ts, second handler: the media is collected from a ytdl stream *)

YtdlStart == InfoStart(RevYtdl)

\* the JSON answer of the inner catch (ytdlError)
YtdlFallback(msg) ==
  Resp(200, "false", NoUrl, msg, ytdlFallbackServices(videoId), 0, FALSE,
       videoInfo.title)

\* getVideoTitle returns; ytdl(videoId, ...) is called
YtdlTitle ==
  /\ rev = RevYtdl /\ pc = "oembed"
  /\ \E o \in OEmbedResponses : videoInfo' = getVideoTitle(o)
  /\ oembed' = "settled"
  /\ inflight' = (inflight \ {OEmbedCall}) \cup {YtdlCall}
  /\ pc' = "ytdl"
  /\ UNCHANGED <<hookVars, selected, earlier, probe, got, threw, rev, req, videoId, k, lastError, held, response, calls, sent,
                 chunks, totalSize>>

\* ytdl(...) settles: it throws, or hands back a stream to iterate
YtdlStream ==
  /\ rev = RevYtdl /\ pc = "ytdl"
  /\ \/ /\ Respond({YtdlCall}, YtdlFallback("Erro ao processar"))
        /\ threw' = TRUE
        /\ UNCHANGED <<chunks, totalSize>>
     \/ /\ pc' = "collect"
        /\ chunks' = 0
        /\ totalSize' = 0
        /\ UNCHANGED <<response, inflight, threw>>
  /\ UNCHANGED <<hookVars, selected, earlier, probe, got, rev, req, videoId, videoInfo, k, lastError, held, calls, sent,
                 oembed>>

\* YtdlFinish without `if (totalSize === 0) throw`
YtdlFinishNoCheck(n) == MediaResp(n)

\* what is sent once the loop over the stream is left with n bytes collected
YtdlFinish(n) ==
  IF n = 0 THEN YtdlFallback("Erro ao processar")
           ELSE MediaResp(n)

\* one round of `for await (const chunk of stream)`: a chunk arrives (and
\* the loop breaks once totalSize exceeds the limit), the stream ends, or
\* the iteration throws
YtdlChunk ==
  /\ rev = RevYtdl /\ pc = "collect"
  /\ \/ \E size \in ChunkSizes :
          /\ chunks < MaxChunks
          /\ chunks' = chunks + 1
          /\ totalSize' = totalSize + size
          /\ IF totalSize' > StreamLimit
               THEN Respond({YtdlCall}, YtdlFinish(totalSize'))
               ELSE UNCHANGED <<pc, response, inflight>>
          /\ UNCHANGED threw
     \/ /\ Respond({YtdlCall}, YtdlFinish(totalSize))
        /\ UNCHANGED <<chunks, totalSize, threw>>
     \/ /\ Respond({YtdlCall}, YtdlFallback("Erro ao processar"))
        /\ threw' = TRUE
        /\ UNCHANGED <<chunks, totalSize>>
  /\ UNCHANGED <<hookVars, selected, earlier, probe, got, rev, req, videoId, videoInfo, k, lastError, held, calls, sent,
                 oembed>>

----------------------------------------------------------------------------
(* The function is stateless: the next request starts from scratch *)

\* NewRequest of a handler that keeps the last video info in a module-level
\* variable and its lastError outside the handler
NewRequestCached ==
  /\ pc = "done"
  /\ rev \in Revs
  /\ req' \in Requests
  /\ pc' = "start"
  /\ videoId' = Null
  /\ k' = 0
  /\ held' = NoResult
  /\ response' = NoResponse
  /\ inflight' = {}
  /\ calls' = NoCalls
  /\ sent' = << >>
  /\ oembed' = "none"
  /\ chunks' = 0
  /\ totalSize' = 0
  /\ got' = << >>
  /\ threw' = FALSE
  /\ earlier' = TRUE
  /\ UNCHANGED <<hookVars, selected, rev, probe, videoInfo, lastError>>

NewRequest ==
  /\ pc = "done"
  /\ rev \in Revs
  /\ req' \in Requests
  /\ pc' = "start"
  /\ videoId' = Null
  /\ videoInfo' = NoInfo
  /\ k' = 0
  /\ lastError' = ""
  /\ held' = NoResult
  /\ response' = NoResponse
  /\ inflight' = {}
  /\ calls' = NoCalls
  /\ sent' = << >>
  /\ oembed' = "none"
  /\ chunks' = 0
  /\ totalSize' = 0
  /\ got' = << >>
  /\ threw' = FALSE
  /\ earlier' = TRUE
  /\ UNCHANGED <<hookVars, selected, rev, probe>>

Next ==
  \/ MultiStart \/ MultiVideoInfo \/ MultiTry
  \/ PairStart \/ PairTry \/ PairTitle
  \/ ProxyStart \/ ProxyTry \/ ProxyStream
  \/ SingleStart \/ SingleCobalt
  \/ ServicesStart \/ ServicesAnswer
  \/ Services2Start \/ Services2Answer
  \/ OptionsStart \/ OptionsAnswer
  \/ YtdlStart \/ YtdlTitle \/ YtdlStream \/ YtdlChunk
  \/ NewRequest

Spec == Init /\ [][Next]_vars

\* every awaited call settles
FairSpec == Spec /\ WF_vars(Next)

----------------------------------------------------------------------------
(* extractVideoId on its own, over a larger set of inputs *)

Run(c, n) == [i \in 1..n |-> c]

ExtractPrefixes ==
  {<< >>, ShortPrefix, WatchUrlText, EmbedPrefix,
   <<"h","t","t","p","s",":","/","/">> \o ShortPrefix, <<"x","/">>}

ExtractSuffixes ==
  {<< >>, <<"&","t","=","1">>, <<"?","s","i">>, <<"#">>, <<"/","x">>, <<"\n">>}

ExtractInputs ==
  {p \o Run(c, n) \o x : p \in ExtractPrefixes, c \in {"a", "-", "!"},
                         n \in 0..MaxIdLen, x \in ExtractSuffixes}

InitExtract ==
  /\ rev = "extractVideoId"
  /\ req \in [url : ExtractInputs, audioOnly : {FALSE}, quality : {Undef},
              proxyDownload : {FALSE}]
  /\ pc = "extract"
  /\ videoId = Null
  /\ videoInfo = NoInfo
  /\ k = 0
  /\ lastError = ""
  /\ held = NoResult
  /\ response = NoResponse
  /\ inflight = {}
  /\ calls = NoCalls
  /\ sent = << >>
  /\ oembed = "none"
  /\ chunks = 0
  /\ totalSize = 0
  /\ got = << >>
  /\ threw = FALSE
  /\ earlier = FALSE
  /\ selected = Undef
  /\ HookIdle(NoHook)
  /\ probe = FetchRejected

ExtractStep ==
  /\ pc = "extract"
  /\ videoId' = extractVideoId(req.url)
  /\ pc' = "extracted"
  /\ UNCHANGED <<hookVars, selected, earlier, probe, got, threw, rev, req, videoInfo, k, lastError, held, response, inflight,
                 calls, sent, oembed, chunks, totalSize>>

NextExtract == ExtractStep

SpecExtract == InitExtract /\ [][NextExtract]_vars

----------------------------------------------------------------------------
(* The response classifiers on their own, over every combination of the     *)
(* fields they read                                                         *)

InitClassify ==
  /\ rev \in CobaltRevs
  /\ req \in [url : {UrlShort}, audioOnly : BOOLEAN, quality : {Undef},
              proxyDownload : {FALSE}]
  /\ probe \in ProbeResponses
  /\ pc = "classify"
  /\ videoId = Null
  /\ videoInfo = NoInfo
  /\ k = 0
  /\ lastError = ""
  /\ held = NoResult
  /\ response = NoResponse
  /\ inflight = {}
  /\ calls = NoCalls
  /\ sent = << >>
  /\ oembed = "none"
  /\ chunks = 0
  /\ totalSize = 0
  /\ got = << >>
  /\ threw = FALSE
  /\ earlier = FALSE
  /\ selected = Undef
  /\ HookIdle(NoHook)

\* the deployed revision's classifier is applied to the response
ClassifyStep ==
  /\ pc = "classify"
  /\ held' = ResultOf(probe)
  /\ pc' = "classified"
  /\ UNCHANGED <<hookVars, selected, rev, req, videoId, videoInfo, k, lastError, response, inflight,
                 calls, sent, oembed, chunks, totalSize, got, threw, earlier, probe>>

NextClassify == ClassifyStep

SpecClassify == InitClassify /\ [][NextClassify]_vars

----------------------------------------------------------------------------
(* getDownloadServices on its own, over ids of every length and with the    *)
(* characters extractVideoId's first pattern lets through                   *)

ServiceIds ==
  {SampleId} \cup {Run(c, n) : c \in {"a", "-", "_", "/", "=", ":"},
                               n \in 1..MaxIdLen}

ServiceRevs == {RevServices, RevServices2}

InitServices ==
  /\ rev \in ServiceRevs
  /\ req \in [url : {UrlShort}, audioOnly : BOOLEAN, quality : {Undef},
              proxyDownload : {FALSE}]
  /\ videoId \in ServiceIds
  /\ pc = "services"
  /\ videoInfo = NoInfo
  /\ k = 0
  /\ lastError = ""
  /\ held = NoResult
  /\ response = NoResponse
  /\ inflight = {}
  /\ calls = NoCalls
  /\ sent = << >>
  /\ oembed = "none"
  /\ chunks = 0
  /\ totalSize = 0
  /\ got = << >>
  /\ threw = FALSE
  /\ earlier = FALSE
  /\ selected = Undef
  /\ HookIdle(NoHook)
  /\ probe = FetchRejected

\* the services list of the deployed revision
ServicesOf(r, id, audioOnly) ==
  IF r = RevServices THEN getDownloadServices(id, audioOnly)
                     ELSE getDownloadServices2(id, audioOnly)

\* const services = getDownloadServices(videoId, audioOnly)
ServicesStep ==
  /\ pc = "services"
  /\ response' = [NoResponse EXCEPT
                    !.links = ServicesOf(rev, videoId, req.audioOnly)]
  /\ pc' = "listed"
  /\ UNCHANGED <<hookVars, selected, rev, req, videoId, videoInfo, k, lastError, held, inflight,
                 calls, sent, oembed, chunks, totalSize, got, threw, earlier,
                 probe>>

NextServices == ServicesStep

SpecServices == InitServices /\ [][NextServices]_vars

----------------------------------------------------------------------------
(* The quality on its way from the resolution selector through the hook's   *)
(* qualityMap and the edge function's mapQuality to the provider payload    *)

\* resolutions of ResolutionSelector.tsx
Resolutions == {"2160p", "1080p", "720p", "480p", "360p"}

\* what downloadVideo can be handed as quality: the selectable ids, nothing,
\* and labels the selector does not offer
Labels == Resolutions \cup {Undef, "1440p", "4K", "max", "240p", "144p", "best"}

\* qualityMap[quality] of the hook; Undef for a key it does not have
qualityMap(quality) ==
  CASE quality = "2160p" -> "2160"
    [] quality = "1080p" -> "1080"
    [] quality = "720p"  -> "720"
    [] quality = "480p"  -> "480"
    [] quality = "360p"  -> "360"
    [] OTHER             -> Undef

InitQuality ==
  /\ rev = RevMulti
  /\ selected \in Labels
  /\ HookIdle(NoHook)
  /\ req \in [url : {UrlShort, UrlBare}, audioOnly : BOOLEAN, quality : {Undef},
              proxyDownload : {FALSE}]
  /\ pc = "select"
  /\ videoId = Null
  /\ videoInfo = NoInfo
  /\ k = 0
  /\ lastError = ""
  /\ held = NoResult
  /\ response = NoResponse
  /\ inflight = {}
  /\ calls = NoCalls
  /\ sent = << >>
  /\ oembed = "none"
  /\ chunks = 0
  /\ totalSize = 0
  /\ got = << >>
  /\ threw = FALSE
  /\ earlier = FALSE
  /\ probe = FetchRejected

\* downloadVideo: body { url, quality: qualityMap[quality] || "1080", ... }
HookInvoke ==
  /\ pc = "select"
  /\ req' = [req EXCEPT !.quality = Or(qualityMap(selected), "1080")]
  /\ pc' = "invoke"
  /\ UNCHANGED <<hookVars, selected, rev, videoId, videoInfo, k, lastError, held, response,
                 inflight, calls, sent, oembed, chunks, totalSize, got, threw,
                 earlier, probe>>

\* part_003: the payload tryInstance builds from mapQuality(quality)
EdgeMapQuality ==
  /\ pc = "invoke"
  /\ videoId' = extractVideoId(req.url)
  /\ sent' = <<requestBody(1, YoutubeUrl(videoId'), req.audioOnly,
                           mapQuality(req.quality))>>
  /\ pc' = "mapped"
  /\ UNCHANGED <<hookVars, selected, rev, req, videoInfo, k, lastError, held, response,
                 inflight, calls, oembed, chunks, totalSize, got, threw,
                 earlier, probe>>

NextQuality == HookInvoke \/ EdgeMapQuality

SpecQuality == InitQuality /\ [][NextQuality]_vars

----------------------------------------------------------------------------
(* downloadVideo / processVideo of the hook, one action per await           *)

Keep == "keep"

Failure(msg) == [success |-> "false", error |-> msg]
Success == [success |-> "true", error |-> Undef]

\* what one stretch of downloadVideo between two awaits does: the values it
\* passes to setProgress, what it passes to setError (Keep: no call), the
\* result it returns, the bodies it sends, the links it opens, and whether
\* it leaves through the finally block
Go(next, show) ==
  [next |-> next, show |-> show, error |-> Keep, result |-> NoHookResult,
   finally |-> FALSE, send |-> << >>, open |-> 0]

\* `return res` inside the try: the finally block runs
Return(show, err, res, open) ==
  [next |-> "returned", show |-> show, error |-> err, result |-> res,
   finally |-> TRUE, send |-> << >>, open |-> open]

\* a catch block that leaves without running the finally block
CaughtNoFinally(show, msg) ==
  [Return(show, msg, Failure(msg), 0) EXCEPT !.finally = FALSE]

\* an exception after `show`: catch does setError(message), returns failure
Caught(show, msg) == Return(show, msg, Failure(msg), 0)

\* the state changes of a stretch
Take(o) ==
  /\ hookPc' = o.next
  /\ progress' = IF o.show = << >> THEN progress ELSE o.show[Len(o.show)]
  /\ shown' = shown \o o.show
  /\ hookError' = IF o.error = Keep THEN hookError ELSE o.error
  /\ returned' = o.result
  /\ isDownloading' = IF o.finally THEN FALSE ELSE isDownloading
  /\ timers' = IF o.finally /\ hookRev # HookProcess THEN timers + 1 ELSE timers
  /\ requests' = requests \o o.send
  /\ opened' = opened + o.open

\* the body of the request; proxy is the proxyDownload flag ("true",
\* "false"), Undef when the revision sends none
Body(r, proxy) ==
  [proxyDownload |-> proxy,
   quality |-> CASE r = HookTwoStep -> Or(qualityMap(selected), "1080")
                 [] r = HookProcess -> Undef
                 [] OTHER -> Or(qualityMap(selected), "720")]

\* the setProgress calls before the first await
StartShow(r) ==
  CASE r = HookStream  -> <<10, 20, 30>>
    [] r = HookTwoStep -> <<5, 10>>
    [] r = HookLink    -> <<10, 30>>
    [] r = HookWindow  -> <<20, 40>>
    [] OTHER           -> << >>

\* downloadVideo(url, quality, audioOnly) up to its first await
downloadVideo ==
  /\ hookRev \in HookRevs
  /\ hookPc \in {"idle", "returned"}
  /\ runs < MaxRuns
  /\ runs' = runs + 1
  /\ isDownloading' = TRUE
  /\ hookError' = NoError
  /\ shown' = StartShow(hookRev)
  /\ progress' = IF shown' = << >> THEN progress ELSE shown'[Len(shown')]
  /\ requests' = <<Body(hookRev, IF hookRev = HookTwoStep THEN "false" ELSE Undef)>>
  /\ hookPc' = "info"
  /\ returned' = NoHookResult
  /\ infoAnswer' = NoInvoke
  /\ fetched' = NoAnswer
  /\ total' = 0
  /\ received' = 0
  /\ nchunks' = 0
  /\ opened' = 0
  /\ UNCHANGED <<edgeVars, hookRev, timers>>

\* revision 1 from `if (!response.ok)` to the read loop
DirectBody(a, show) ==
  IF ~a.ok THEN Caught(show, "Erro no servidor")
  ELSE IF ~a.body THEN Caught(show \o <<60>>, "Nao foi possivel ler a resposta")
  ELSE Go("read", show \o <<60>>)

\* revision 1: `await fetch(functionUrl, ...)` settles
DirectFetched ==
  /\ hookRev = HookStream /\ hookPc = "info"
  /\ \E a \in EdgeAnswers :
       /\ fetched' = a
       /\ total' = a.contentLength
       /\ Take(IF a.fetch = "reject" THEN Caught(<< >>, "Failed to fetch")
               ELSE IF a.contentType = "json" THEN Go("json", <<50>>)
               ELSE DirectBody(a, <<50>>))
  /\ UNCHANGED <<edgeVars, hookRev, infoAnswer, received, nchunks, runs>>

\* revision 1: `await response.json()` settles
DirectJson ==
  /\ hookRev = HookStream /\ hookPc = "json"
  /\ Take(IF ~fetched.parses THEN Caught(<< >>, "Unexpected token")
          ELSE IF fetched.data.error # Undef
            THEN Return(<< >>, fetched.data.error, Failure(fetched.data.error), 0)
          ELSE DirectBody(fetched, << >>))
  /\ UNCHANGED <<edgeVars, hookRev, infoAnswer, fetched, total, received,
                 nchunks, runs>>

\* InfoInvoked that sends the proxy request for an external answer too
InfoInvokedProxyAlways ==
  /\ hookRev = HookTwoStep /\ hookPc = "info"
  /\ \E a \in InvokeAnswers :
       /\ infoAnswer' = a
       /\ Take(IF a.fnError THEN Caught(<< >>, "Edge Function error")
               ELSE IF a.data.error # Undef
                 THEN Return(<< >>, a.data.error, Failure(a.data.error), 0)
               ELSE [Go("proxy", <<20>>) EXCEPT
                       !.send = <<Body(HookTwoStep, "true")>>])
  /\ UNCHANGED <<edgeVars, hookRev, fetched, total, received, nchunks, runs>>

\* revision 2, step 1: `await supabase.functions.invoke(...)` settles; the
\* proxy request of step 2 is sent
InfoInvoked ==
  /\ hookRev = HookTwoStep /\ hookPc = "info"
  /\ \E a \in InvokeAnswers :
       /\ infoAnswer' = a
       /\ Take(IF a.fnError THEN Caught(<< >>, "Edge Function error")
               ELSE IF a.data.error # Undef
                 THEN Return(<< >>, a.data.error, Failure(a.data.error), 0)
               ELSE IF a.data.isExternal
                 THEN Return(<<100>>, Keep, Success, 1)
               ELSE [Go("proxy", <<20>>) EXCEPT
                       !.send = <<Body(HookTwoStep, "true")>>])
  /\ UNCHANGED <<edgeVars, hookRev, fetched, total, received, nchunks, runs>>

\* revision 2, step 2: `await fetch(...)` of the proxy request settles
ProxyFetched ==
  /\ hookRev = HookTwoStep /\ hookPc = "proxy"
  /\ \E a \in EdgeAnswers :
       /\ fetched' = a
       /\ total' = a.contentLength
       /\ Take(IF a.fetch = "reject" THEN Caught(<< >>, "Failed to fetch")
               ELSE IF ~a.ok THEN Go("text", << >>)
               ELSE IF a.contentType = "json" THEN Go("json", <<30>>)
               ELSE IF ~a.body
                 THEN Caught(<<30>>, "Nao foi possivel ler a resposta")
               ELSE Go("read", <<30>>))
  /\ UNCHANGED <<edgeVars, hookRev, infoAnswer, received, nchunks, runs>>

\* revision 2: `await proxyResponse.text()` settles, and the handler throws
ProxyText ==
  /\ hookRev = HookTwoStep /\ hookPc = "text"
  /\ Take(Caught(<< >>, "Falha no download do video"))
  /\ UNCHANGED <<edgeVars, hookRev, infoAnswer, fetched, total, received,
                 nchunks, runs>>

\* revision 2: `await proxyResponse.json()` settles, and the handler throws
ProxyJson ==
  /\ hookRev = HookTwoStep /\ hookPc = "json"
  /\ Take(Caught(<< >>, IF fetched.parses
                          THEN Or(fetched.data.error, "Download failed")
                          ELSE "Unexpected token"))
  /\ UNCHANGED <<edgeVars, hookRev, infoAnswer, fetched, total, received,
                 nchunks, runs>>

\* the smaller of two numbers (Math.min)
MathMin(a, b) == IF a <= b THEN a ELSE b

\* LoopProgress without the cap at 95
LoopProgressUncapped(r, tot, rec, n) ==
  IF r = HookStream
    THEN IF tot > 0 THEN 60 + (rec * 35) \div tot
                    ELSE 60 + n * 2
    ELSE IF tot > 0 THEN 30 + (rec * 65) \div tot
                    ELSE 30 + (rec * 60) \div 10000000

\* the value the read loop passes to setProgress after a chunk, rounded down
LoopProgress(r, tot, rec, n) ==
  IF r = HookStream
    THEN IF tot > 0 THEN MathMin(95, 60 + (rec * 35) \div tot)
                    ELSE MathMin(95, 60 + n * 2)
    ELSE IF tot > 0 THEN 30 + MathMin((rec * 65) \div tot, 65)
                    ELSE MathMin(90, 30 + (rec * 60) \div 10000000)

\* what follows the read loop once reader.read() reports done
AfterLoop(r, rec, n) ==
  IF r = HookStream
    THEN IF rec = 0 THEN Caught(<<96>>, "Arquivo vazio recebido")
         ELSE Return(<<96, 98, 100>>, Keep, Success, 1)
    ELSE IF n = 0 \/ rec = 0 THEN Caught(<<95>>, "Arquivo vazio recebido")
         ELSE IF rec < 1000
           THEN Caught(<<95>>, "Arquivo muito pequeno - download incompleto")
         ELSE Return(<<95, 100>>, Keep, Success, 1)

\* revisions 1 and 2: `await reader.read()` settles with a chunk, with done,
\* or with an exception
ReadChunk ==
  /\ hookRev \in {HookStream, HookTwoStep} /\ hookPc = "read"
  /\ \/ \E size \in ReadSizes :
          /\ nchunks < MaxReads
          /\ nchunks' = nchunks + 1
          /\ received' = received + size
          /\ Take(Go("read", <<LoopProgress(hookRev, total, received', nchunks')>>))
     \/ /\ Take(AfterLoop(hookRev, received, nchunks))
        /\ UNCHANGED <<received, nchunks>>
     \/ /\ Take(Caught(<< >>, "network error"))
        /\ UNCHANGED <<received, nchunks>>
  /\ UNCHANGED <<edgeVars, hookRev, infoAnswer, fetched, total, runs>>

\* part_006: `await supabase.functions.invoke(...)` settles
LinkInvoked ==
  /\ hookRev = HookLink /\ hookPc = "info"
  /\ \E a \in InvokeAnswers :
       Take(IF a.fnError THEN Caught(<<60>>, "Edge Function error")
            ELSE IF a.data.error # Undef
              THEN Return(<<60>>, a.data.error, Failure(a.data.error), 0)
            ELSE IF a.data.downloadUrl # NoUrl
              THEN Return(<<60, 80, 100>>, Keep, Success, 1)
            ELSE Return(<<60>>, Keep, Failure("Nenhuma URL de download recebida"), 0))
  /\ UNCHANGED <<edgeVars, hookRev, infoAnswer, fetched, total, received,
                 nchunks, runs>>

\* part_007 and processVideo: `await fetch(functionUrl, ...)` settles
JsonFetched ==
  /\ hookRev \in {HookWindow, HookProcess} /\ hookPc = "info"
  /\ \E a \in EdgeAnswers :
       /\ fetched' = a
       /\ Take(IF a.fetch = "reject" THEN Caught(<< >>, "Failed to fetch")
               ELSE Go("json", IF hookRev = HookWindow THEN <<60>> ELSE << >>))
  /\ UNCHANGED <<edgeVars, hookRev, infoAnswer, total, received, nchunks, runs>>

\* part_007: `await response.json()` settles
WindowJson ==
  /\ hookRev = HookWindow /\ hookPc = "json"
  /\ LET data == fetched.data
     IN Take(IF ~fetched.parses THEN Caught(<< >>, "Unexpected token")
             ELSE IF data.error # Undef
               THEN Return(<< >>, data.error, Failure(data.error), 0)
             ELSE IF data.method = "direct" /\ data.downloadUrl # NoUrl
               THEN Return(<<80, 100>>, Keep, Success, 1)
             ELSE IF data.method = "external" /\ data.services.present
               THEN Return(<<80, 100>>, Keep, Success,
                           IF Len(data.services.items) > 0 THEN 1 ELSE 0)
             ELSE Return(<<80>>, "Nao foi possivel obter link de download",
                         Failure("Nao foi possivel obter link de download"), 0))
  /\ UNCHANGED <<edgeVars, hookRev, infoAnswer, fetched, total, received,
                 nchunks, runs>>

\* processVideo: `await response.json()` settles
ProcessJson ==
  /\ hookRev = HookProcess /\ hookPc = "json"
  /\ LET data == fetched.data
     IN Take(IF ~fetched.parses THEN Caught(<< >>, "Unexpected token")
             ELSE IF data.error # Undef
               THEN Return(<< >>, data.error, Failure(data.error), 0)
             ELSE IF NonEmpty(data.services)
               THEN Return(<< >>, Keep, Success, 0)
             ELSE Return(<< >>, "Nenhum servico de download disponivel",
                         Failure("Nenhum servico de download disponivel"), 0))
  /\ UNCHANGED <<edgeVars, hookRev, infoAnswer, fetched, total, received,
                 nchunks, runs>>

\* the callback of a finally block's setTimeout runs: setProgress(0)
ProgressTimer ==
  /\ timers > 0
  /\ timers' = timers - 1
  /\ progress' = 0
  /\ shown' = IF hookPc \in {"idle", "returned"} THEN shown ELSE Append(shown, 0)
  /\ UNCHANGED <<edgeVars, hookRev, hookPc, isDownloading, hookError, returned,
                 requests, infoAnswer, fetched, total, received, nchunks, runs,
                 opened>>

InitHook ==
  /\ rev = RevProxy
  /\ req \in [url : {UrlShort}, audioOnly : {FALSE}, quality : {Undef},
              proxyDownload : {FALSE}]
  /\ pc = "start"
  /\ videoId = Null
  /\ videoInfo = NoInfo
  /\ k = 0
  /\ lastError = ""
  /\ held = NoResult
  /\ response = NoResponse
  /\ inflight = {}
  /\ calls = NoCalls
  /\ sent = << >>
  /\ oembed = "none"
  /\ chunks = 0
  /\ totalSize = 0
  /\ got = << >>
  /\ threw = FALSE
  /\ earlier = FALSE
  /\ probe = FetchRejected
  /\ selected = "720p"
  /\ \E r \in HookRevs : HookIdle(r)

\* the awaited calls of the hook settling
HookSettles ==
  \/ DirectFetched
  \/ DirectJson
  \/ InfoInvoked
  \/ ProxyFetched
  \/ ProxyText
  \/ ProxyJson
  \/ ReadChunk
  \/ LinkInvoked
  \/ JsonFetched
  \/ WindowJson
  \/ ProcessJson

NextHook ==
  \/ downloadVideo
  \/ HookSettles
  \/ ProgressTimer

SpecHook == InitHook /\ [][NextHook]_vars

\* every awaited call settles
FairSpecHook == SpecHook /\ WF_vars(HookSettles)

\* the response is HTTP-ok and its body parsed
Parsed(r) == r.fetch = "resolve" /\ r.ok /\ r.json

----------------------------------------------------------------------------
(* Properties *)

ProviderCalls == {c \in inflight : c.to = "cobalt"}

Last(q) == q[Len(q)]

AllFailed == \A n \in 1..Len(got) : ~got[n].accepted

\* the response carries at least one static external download link
HasLinks(r) == Len(r.links) > 0 \/ (r.isExternal /\ r.downloadUrl # NoUrl)

\* revisions that loop over a COBALT_INSTANCES list
LoopRevs == {RevProxy, RevPair, RevMulti}

\* revisions whose handler calls extractVideoId before anything else
ExtractFirstRevs == {RevMulti, RevServices, RevServices2, RevYtdl, RevOptions}

\* the video id the deployed revision draws from the request url
IdFor(url) == IF rev \in ExtractFirstRevs THEN extractVideoId(url)
                                          ELSE MatchUrlPattern(url)

\* C1: provider attempts are made one at a time in list order: the n-th
\* payload goes to instance n, it is sent only after the attempt on
\* instance n-1 has settled as a failure, and at most one provider request
\* is in flight at any time.
C1_Sequential ==
  /\ Cardinality(ProviderCalls) <= 1
  /\ Len(sent) - Len(got) = Cardinality(ProviderCalls)
  /\ \A n \in 1..Len(sent) : sent[n].instance = n
  /\ \A n \in 2..Len(sent) :
       /\ Len(got) >= n - 1
       /\ got[n - 1].instance = n - 1
       /\ ~got[n - 1].accepted

C1_Witness ==
  /\ rev = RevMulti
  /\ Len(sent) = 3
  /\ Len(got) = 2
  /\ CobaltCall(3) \in inflight

\* C2: first success wins: an accepted answer is the last one received, no
\* instance after it is contacted, every instance before it failed, and the
\* success response carries its url (and, in part_003, its position as source).
C2_FirstSuccessWins ==
  /\ \A n \in 1..Len(got) :
       got[n].accepted =>
         /\ n = Len(got)
         /\ Len(sent) = n
         /\ \A j \in 1..(n - 1) : ~got[j].accepted
         /\ pc \in {"done", "title", "proxy"}
         /\ (pc = "done" /\ rev # RevProxy) =>
              /\ response.success = "true"
              /\ response.downloadUrl = got[n].url
              /\ rev = RevMulti => response.source = got[n].instance
  /\ (pc = "done" /\ rev \in CobaltRevs /\ response.success = "true"
        /\ ~response.isExternal) =>
       /\ got # << >>
       /\ Last(got).accepted
       /\ response.downloadUrl = Last(got).url

C2_Witness ==
  /\ rev = RevMulti
  /\ pc = "done"
  /\ Len(got) = 3
  /\ got[3].accepted
  /\ response.source = 3
  /\ response.downloadUrl = PickerUrl

FallbackAnswer ==
  CASE rev = RevMulti -> MultiFallback(lastError)
    [] rev = RevPair  -> PairFallback
    [] rev = RevProxy -> ProxyFallback
    [] OTHER          -> tryAlternativeDownload(req.url)

\* C4: an exception raised by a provider call never aborts the request: if
\* a later instance exists it is tried, otherwise the fallback answer is sent.
C4_ExceptionTriesNext ==
  (rev \in CobaltRevs /\ got # << >> /\ threw) =>
    IF Len(got) < NumInstances(rev)
      THEN pc = "try" /\ Len(sent) = Len(got) + 1
      ELSE pc = "done" /\ response = FallbackAnswer

\* C5: a non-null result of extractVideoId is exactly 11 characters long.
C5_ElevenChars ==
  (pc = "extracted" /\ videoId # Null) => Len(videoId) = 11

\* C6: every provider attempt of one request carries the same video URL, the
\* same videoQuality and the same audio mode.
C6_IdenticalPayload ==
  \A n \in 1..Len(sent) :
    /\ sent[n].url = sent[1].url
    /\ sent[n].videoQuality = sent[1].videoQuality
    /\ sent[n].downloadMode = sent[1].downloadMode

C6_Witness ==
  /\ rev = RevMulti
  /\ Len(sent) = NumInstancesMulti
  /\ req.audioOnly
  /\ req.quality = "4K"
  /\ sent[NumInstancesMulti].videoQuality = "2160"

\* C7: no retry: every step leaves each instance with at most one call, a
\* new call goes to an instance of the list that was never called before,
\* and a failed attempt is followed by a strictly later instance, so at most
\* NumInstances attempts are made before the response.
C7_NoRetry ==
  [][ /\ \A i \in 1..MaxInstances : calls'[i] <= 1
      /\ \A i \in 1..MaxInstances :
           calls'[i] > calls[i] => calls[i] = 0 /\ i <= NumInstances(rev)
      /\ (pc = "try" /\ pc' = "try") => k' = k + 1 /\ k' <= NumInstances(rev)
      /\ Len(sent') <= NumInstances(rev) ]_vars

C7_Witness ==
  /\ rev = RevMulti
  /\ pc = "done"
  /\ response.success = "false"
  /\ \A i \in 1..NumInstancesMulti : calls[i] = 1

\* C8: a response without download URL and without media carries an error
\* message or a non-empty list of external links; none claims success while
\* carrying nothing.
C8_FailureSurfaces ==
  (pc = "done" /\ response.kind = "json" /\ response.downloadUrl = NoUrl) =>
    /\ response.error # Undef \/ Len(response.links) > 0
    /\ response.success = "true" => Len(response.links) > 0

\* C9 as stated: in every revision, a url from which no video id can be
\* extracted causes no outbound call and is answered with an error.
C9_Original ==
  extractVideoId(req.url) = Null =>
    /\ inflight = {} /\ sent = << >> /\ oembed = "none"
    /\ pc = "done" => response.error # Undef

\* C9 amended: the same, in the revisions whose handler calls extractVideoId
\* (part_003, the service-list revisions and the ytdl revision).
C9_IdBeforeCalls ==
  (rev \in ExtractFirstRevs /\ extractVideoId(req.url) = Null) =>
    /\ inflight = {} /\ sent = << >> /\ oembed = "none"
    /\ pc = "done" => response.error # Undef /\ response.status = 400

C9_Witness ==
  /\ rev = RevMulti
  /\ pc = "done"
  /\ req.url = UrlOther
  /\ response.status = 400
  /\ sent = << >>

\* C10 as stated: in every revision that fetches a title, the oEmbed call
\* has completed before the first provider request is sent.
C10_Original ==
  (rev \in {RevMulti, RevPair} /\ sent # << >>) => oembed = "settled"

\* C10 amended: in part_003 the oEmbed call has completed before the first
\* provider request is sent; in part_000 the title is fetched only after a
\* provider attempt was accepted.
C10_OEmbedOrder ==
  /\ (rev = RevMulti /\ sent # << >>) => oembed = "settled"
  /\ (rev = RevPair /\ oembed # "none") => got # << >> /\ Last(got).accepted

C10_Witness ==
  /\ rev = RevMulti
  /\ pc = "try"
  /\ oembed = "settled"
  /\ Len(sent) = 1
  /\ OEmbedCall \notin inflight

\* the state in which a handler starts: nothing of an earlier request is left
FreshState ==
  /\ videoId = Null /\ videoInfo = NoInfo /\ k = 0 /\ lastError = ""
  /\ held = NoResult /\ response = NoResponse /\ inflight = {}
  /\ calls = NoCalls /\ sent = << >> /\ oembed = "none"
  /\ chunks = 0 /\ totalSize = 0 /\ got = << >> /\ threw = FALSE

\* C11: the edge function keeps no state across requests: whatever was
\* handled before, a request starts in the state a first request starts in,
\* so its response depends only on its body and on what the outbound calls
\* made for it return.
C11_Stateless == pc = "start" => FreshState

C11_Witness ==
  /\ earlier
  /\ pc = "start"
  /\ rev = RevMulti
  /\ req.url = UrlShort

\* the handler stops trying and reports the provider's url
ReportsSuccess ==
  \/ pc \in {"title", "proxy"}
  \/ pc = "done" /\ response.success = "true" /\ ~response.isExternal

\* C12: no shared mutable state between attempts: a failed attempt leaves
\* the request, the video id and the video info as they were, the next
\* attempt goes out with the payload of the first, and the verdict on
\* instance k is the classification of instance k's own response.
C12_NoSharedState ==
  [][ (pc = "try" /\ rev \in LoopRevs) =>
        /\ pc' = "try" =>
             /\ req' = req /\ rev' = rev
             /\ videoId' = videoId /\ videoInfo' = videoInfo
             /\ Len(sent') = Len(sent) + 1
             /\ Last(sent').url = sent[1].url
             /\ Last(sent').videoQuality = sent[1].videoQuality
             /\ Last(sent').downloadMode = sent[1].downloadMode
        /\ Len(got') = Len(got) + 1
        /\ Last(got').instance = k
        /\ Last(got').accepted <=> ReportsSuccess' ]_vars

C12_Witness ==
  /\ rev = RevMulti
  /\ pc = "done"
  /\ Len(got) = 3
  /\ lastError = "error.api.youtube.login"
  /\ Last(got).accepted
  /\ response.success = "true"
  /\ response.title = "Song"

\* C13: a provider response whose status is "error" is never accepted as a
\* success, whether or not it carries a url, in any revision that reads
\* Cobalt responses.
C13_ErrorNeverAccepted ==
  (pc = "classified" /\ Parsed(probe) /\ probe.data.status = "error")
    => ~held.success

\* C14: tryInstance on an HTTP-ok response: tunnel/redirect yield the url;
\* picker with entries yields the first entry's url; local-processing with
\* tunnels yields the first tunnel; error yields failure; otherwise a url
\* that is present is taken; anything else fails as "Unknown response format".
C14_TryInstanceCases ==
  (pc = "classified" /\ rev = RevMulti /\ Parsed(probe)) =>
    LET d == probe.data
    IN IF d.status \in {"tunnel", "redirect"}
         THEN held.success /\ held.url = d.url
       ELSE IF d.status = "picker" /\ d.picker.present /\ d.picker.items # << >>
         THEN held.success /\ held.url = Head(d.picker.items)
       ELSE IF d.status = "local-processing" /\ d.tunnel.present
               /\ d.tunnel.items # << >>
         THEN held.success /\ held.url = Head(d.tunnel.items)
       ELSE IF d.status = "error"
         THEN ~held.success
       ELSE IF d.url # NoUrl
         THEN held.success /\ held.url = d.url
       ELSE ~held.success /\ held.error = "Unknown response format"

C14_Witness ==
  /\ pc = "classified"
  /\ rev = RevMulti
  /\ Parsed(probe)
  /\ probe.data.status = "error"
  /\ probe.data.url = MediaUrl
  /\ ~held.success
  /\ held.error = "error.api.youtube.login"

\* C15: a response that reports success: true as a download result carries
\* a defined, non-empty downloadUrl.
C15_SuccessHasUrl ==
  (/\ pc = "done"
   /\ rev \in CobaltRevs
   /\ response.kind = "json"
   /\ response.success = "true")
  => response.downloadUrl # NoUrl

\* C16: a request without url (missing or empty) causes no outbound call of
\* any kind and is answered with status 400 and an error message.
C16_NoUrlRejected ==
  (rev \in Revs /\ req.url = UrlEmpty) =>
    /\ pc \in {"start", "done"}
    /\ inflight = {} /\ calls = NoCalls /\ sent = << >> /\ oembed = "none"
    /\ pc = "done" => (/\ response.status = 400
                       /\ response.kind = "json"
                       /\ response.error # Undef)

C16_Witness ==
  /\ rev = RevSingle
  /\ req.url = UrlEmpty
  /\ pc = "done"
  /\ response.status = 400
  /\ response.error = "URL is required"

\* text `sub` occurs in text `s`
Contains(s, sub) ==
  \E i \in 0..(Len(s) - Len(sub)) : SubSeq(s, i + 1, i + Len(sub)) = sub

\* the link carries the id: as it is, or as encodeURIComponent writes it
\* inside a URL parameter
Embeds(link, id) ==
  \/ Contains(link.arg, id)
  \/ Contains(link.arg, encodeURIComponent(id))

IsMp3(link) == link.site = YtMp3(<< >>).site

\* C17: getDownloadServices returns a non-empty list for every id; the
\* audioOnly list is the plain list of four with exactly one MP3 service
\* added and the four in their order; every entry's URL embeds the id.
C17_ServiceList ==
  pc = "listed" =>
    LET list == response.links
        plain == ServicesOf(rev, videoId, FALSE)
    IN /\ Len(list) > 0
       /\ Len(plain) = 4
       /\ \A i \in 1..Len(list) : Embeds(list[i], videoId)
       /\ SelectSeq(list, LAMBDA l : ~IsMp3(l)) = plain
       /\ IF req.audioOnly
            THEN /\ Len(list) = Len(plain) + 1
                 /\ Cardinality({i \in 1..Len(list) : IsMp3(list[i])}) = 1
            ELSE list = plain

C17_Witness ==
  /\ pc = "listed"
  /\ rev = RevServices
  /\ req.audioOnly
  /\ videoId = Run("/", 3)
  /\ Len(response.links) = 5
  /\ IsMp3(response.links[1])

\* C18: for each resolution the user can select, the numeric value the hook
\* sends comes out of mapQuality unchanged as videoQuality; only a missing
\* or unrecognized quality becomes 1080.
C18_QualityReachesProvider ==
  pc = "mapped" =>
    IF selected \in Resolutions
      THEN /\ req.quality = qualityMap(selected)
           /\ sent[1].videoQuality = req.quality
      ELSE sent[1].videoQuality = "1080"

\* C19: in the ytdl revision the bytes collected from the stream, returned
\* as the body with a matching Content-Length, never exceed 50 * 1024 * 1024.
C19_StreamLimited ==
  (rev = RevYtdl /\ pc \in {"collect", "done"}) =>
    /\ totalSize <= StreamLimit
    /\ response.kind = "media" => response.length <= StreamLimit

\* C20: in the ytdl revision a failed stream step (ytdl or the iteration
\* throws, or the stream ends with zero bytes) is answered in JSON with
\* success: false, an error message and exactly three fallbackServices; a
\* media response never has an empty body.
C20_StreamFailureFallsBack ==
  (rev = RevYtdl /\ pc = "done" /\ oembed = "settled") =>
    /\ (threw \/ totalSize = 0) =>
         /\ response.kind = "json"
         /\ response.success = "false"
         /\ response.error # Undef
         /\ Len(response.links) = 3
         /\ response.links = ytdlFallbackServices(videoId)
    /\ response.kind = "media" =>
         /\ response.length > 0
         /\ response.length = totalSize

C20_Witness ==
  /\ rev = RevYtdl
  /\ pc = "done"
  /\ chunks > 0
  /\ totalSize = 0
  /\ ~threw
  /\ response.success = "false"
  /\ Len(response.links) = 3

\* the info answer is an error: invoke reported one, or the data carries one
InfoFailed == infoAnswer.fnError \/ infoAnswer.data.error # Undef

\* C21: the two-step hook sends the proxy request (proxyDownload: true) only
\* after the info request (proxyDownload: false) returned without error and
\* without isExternal; after an error or an external answer no proxy request
\* is sent, and for an external answer the link is opened and success is
\* returned.
C21_ProxyAfterInfo ==
  hookRev = HookTwoStep =>
    /\ (\E i \in 1..Len(requests) : requests[i].proxyDownload = "true") =>
         /\ requests = <<Body(HookTwoStep, "false"), Body(HookTwoStep, "true")>>
         /\ infoAnswer.settled
         /\ ~InfoFailed
         /\ ~infoAnswer.data.isExternal
    /\ (infoAnswer.settled /\ (InfoFailed \/ infoAnswer.data.isExternal)) =>
         /\ requests = <<Body(HookTwoStep, "false")>>
         /\ hookPc = "returned"
    /\ (infoAnswer.settled /\ InfoFailed) => returned.success = "false"
    /\ (infoAnswer.settled /\ ~InfoFailed /\ infoAnswer.data.isExternal) =>
         /\ opened = 1
         /\ returned.success = "true"

C21_Witness ==
  /\ hookRev = HookTwoStep
  /\ hookPc = "read"
  /\ Len(requests) = 2
  /\ requests[2].proxyDownload = "true"
  /\ infoAnswer.settled
  /\ infoAnswer.data.downloadUrl = MediaUrl

\* C22: isDownloading is true from the call of downloadVideo until it
\* returns and false once it has returned, on every path; when every
\* awaited call settles, isDownloading eventually becomes false.
C22_IsDownloading ==
  /\ [](hookRev \in HookRevs =>
          /\ hookPc \notin {"idle", "returned"} => isDownloading
          /\ hookPc = "returned" =>
               /\ ~isDownloading
               /\ returned.success \in {"true", "false"})
  /\ (isDownloading ~> ~isDownloading)

C22_Witness ==
  /\ hookRev = HookStream
  /\ hookPc = "returned"
  /\ ~isDownloading
  /\ returned.success = "false"
  /\ nchunks > 0
  /\ hookError # NoError

\* C23: after downloadVideo has returned, error is non-null exactly when the
\* result has success: false, in every revision of the hook.
C23_ErrorAgreesWithResult ==
  (hookRev \in HookRevs /\ hookPc = "returned") =>
    (hookError # NoError <=> returned.success = "false")

\* C24: during a run of downloadVideo that no other run preceded, progress
\* stays within 0..100, never decreases, stays at most 95 while chunks are
\* read, and reaches 100 only when the result is success: true.
C24_ProgressMonotone ==
  (hookRev \in HookRevs /\ runs = 1) =>
    /\ progress \in 0..100
    /\ \A i \in 1..Len(shown) : shown[i] \in 0..100
    /\ \A i \in 1..(Len(shown) - 1) : shown[i] <= shown[i + 1]
    /\ hookPc # "returned" => (shown = << >> \/ progress = shown[Len(shown)])
    /\ hookPc = "read" => progress <= 95
    /\ (\E i \in 1..Len(shown) : shown[i] = 100) =>
         /\ hookPc = "returned"
         /\ returned.success = "true"

C24_Witness ==
  /\ hookRev = HookStream
  /\ runs = 1
  /\ hookPc = "read"
  /\ total > 0
  /\ received > total
  /\ progress = 95

====
